---------------------------- MODULE Spec2Model ----------------------------
(***************************************************************************)
(* The message envelope of nanvix/sys and its codecs:                      *)
(*   src/src/ipc/typ.rs      the message type tag (five variants)          *)
(*   src/src/ipc/message.rs  the message, its own message type (four       *)
(*                           variants) and the byte codec of both          *)
(* Byte arrays are sequences of 0..255 (index 1 is offset 0).  The byte    *)
(* order of to_ne_bytes / from_ne_bytes is the host's: it is chosen in     *)
(* Init and never changes.                                                 *)
(***************************************************************************)
EXTENDS Integers, Sequences, FiniteSets, TLC

VARIABLES
    endian,     \* byte order of the host: "little" or "big"
    pc,         \* position of the caller in its scenario
    origin,     \* where the message or buffer came from: "new", "default", "received"
    msg,        \* <<m>>: the message built by Message::new / Message::default
    bytes,      \* the wire buffer (output of to_bytes, or input of try_from_bytes)
    mutated,    \* <<offset>> when one byte of the buffer was overwritten
    result,     \* result of Message::try_from_bytes
    reenc,      \* to_bytes of the decoded message
    typ,        \* <<t>>: the typ.rs tag given to MessageType::to_bytes
    tagBytes,   \* four bytes: output of a tag encoder, or input of a tag decoder
    tagResult   \* result of MessageType::try_from_bytes

vars == <<endian, pc, origin, msg, bytes, mutated, result, reenc, typ, tagBytes, tagResult>>

----------------------------------------------------------------------------
(* Bounds of the inputs *)

\* process identifiers 0..MaxPid are tried, next to the named ones below
MaxPid == 1
\* tag words 0..MaxTagWord are tried as decoder input, next to the named ones
MaxTagWord == 6

\* A u32 is its base-256 numeral, most significant digit first (TLC's integers
\* end at 2^31 - 1): U32(x) is the u32 of a small number x
U32(x) == << (x \div 16777216) % 256, (x \div 65536) % 256, (x \div 256) % 256, x % 256 >>
U32Max == << 255, 255, 255, 255 >>

PidValues == {U32(x) : x \in 0..MaxPid} \cup {U32(7), << 1, 2, 3, 4 >>}
TagWords == {U32(x) : x \in 0..MaxTagWord} \cup {U32(255), U32(256), << 4, 0, 0, 0 >>, U32Max}
MutationBytes == {4, 255}

----------------------------------------------------------------------------
(* Integers and byte arrays *)

\* u32::to_ne_bytes
to_ne_bytes(x) ==
    IF endian = "little" THEN << x[4], x[3], x[2], x[1] >> ELSE x

\* u32::from_ne_bytes
from_ne_bytes(b) ==
    IF endian = "little" THEN << b[4], b[3], b[2], b[1] >> ELSE << b[1], b[2], b[3], b[4] >>

\* [v; n]
Fill(v, n) == [i \in 1..n |-> v]

\* bytes[offset..(offset + n)] exists (Rust panics otherwise)
InRange(b, offset, n) == offset + n <= Len(b)

\* &bytes[offset..(offset + n)]
Slice(b, offset, n) == SubSeq(b, offset + 1, offset + n)

\* bytes[offset..(offset + n)].copy_from_slice(data), for a slice that exists
CopyFromSlice(b, offset, data) ==
    [i \in 1..Len(b) |->
        IF offset < i /\ i <= offset + Len(data) THEN data[i - offset] ELSE b[i]]

----------------------------------------------------------------------------
(* Results *)

Ok(v) == [kind |-> "Ok", value |-> <<v>>, error |-> <<>>]
Err(code, reason) ==
    [kind |-> "Err", value |-> <<>>, error |-> <<[code |-> code, reason |-> reason]>>]
Panic == [kind |-> "Panic", value |-> <<>>, error |-> <<>>]
NoResult == [kind |-> "None", value |-> <<>>, error |-> <<>>]

----------------------------------------------------------------------------
(* src/src/ipc/typ.rs *)

Typ_MessageType == {"Interrupt", "Exception", "Ipc", "SchedulingEvent", "Ikc"}

Typ_MessageType_SIZE == 4

Typ_MessageType_to_bytes(t) ==
    CASE t = "Interrupt" -> to_ne_bytes(U32(0))
      [] t = "Exception" -> to_ne_bytes(U32(1))
      [] t = "Ipc" -> to_ne_bytes(U32(2))
      [] t = "SchedulingEvent" -> to_ne_bytes(U32(3))
      [] t = "Ikc" -> to_ne_bytes(U32(4))

\* a decoder that forgets the last variant
Typ_MessageType_try_from_bytes_NoIkc(b) ==
    LET w == from_ne_bytes(b)
    IN  CASE w = U32(0) -> Ok("Interrupt")
          [] w = U32(1) -> Ok("Exception")
          [] w = U32(2) -> Ok("Ipc")
          [] w = U32(3) -> Ok("SchedulingEvent")
          [] OTHER -> Err("InvalidMessage", "invalid message type")

Typ_MessageType_try_from_bytes(b) ==
    LET w == from_ne_bytes(b)
    IN  CASE w = U32(0) -> Ok("Interrupt")
          [] w = U32(1) -> Ok("Exception")
          [] w = U32(2) -> Ok("Ipc")
          [] w = U32(3) -> Ok("SchedulingEvent")
          [] w = U32(4) -> Ok("Ikc")
          [] OTHER -> Err("InvalidMessage", "invalid message type")

----------------------------------------------------------------------------
(* src/src/ipc/message.rs: the message type *)

MessageType == {"Interrupt", "Exception", "Ipc", "SchedulingEvent"}

MessageType_SIZE == 4

MessageType_to_bytes(t) ==
    CASE t = "Interrupt" -> to_ne_bytes(U32(0))
      [] t = "Exception" -> to_ne_bytes(U32(1))
      [] t = "Ipc" -> to_ne_bytes(U32(2))
      [] t = "SchedulingEvent" -> to_ne_bytes(U32(3))

\* a decoder that falls back to a default variant instead of failing
MessageType_try_from_bytes_SilentDefault(b) ==
    LET w == from_ne_bytes(b)
    IN  CASE w = U32(0) -> Ok("Interrupt")
          [] w = U32(1) -> Ok("Exception")
          [] w = U32(3) -> Ok("SchedulingEvent")
          [] OTHER -> Ok("Ipc")

MessageType_try_from_bytes(b) ==
    LET w == from_ne_bytes(b)
    IN  CASE w = U32(0) -> Ok("Interrupt")
          [] w = U32(1) -> Ok("Exception")
          [] w = U32(2) -> Ok("Ipc")
          [] w = U32(3) -> Ok("SchedulingEvent")
          [] OTHER -> Err("InvalidMessage", "invalid message type")

----------------------------------------------------------------------------
(* crate::pm::ProcessIdentifier, used by message.rs *)

\* mem::size_of::<ProcessIdentifier>(): the width that static_assert_size!(Message, 76)
\* leaves for each of the two identifiers next to a 4-byte tag and a 64-byte payload
SizeOfProcessIdentifier == 4

KERNEL == U32(0)

ProcessIdentifier_to_ne_bytes(p) == to_ne_bytes(p)

ProcessIdentifier_from_ne_bytes(b) == from_ne_bytes(b)

----------------------------------------------------------------------------
(* src/src/ipc/message.rs: the message *)

\* static_assert_size!(Message, 76)
SizeOfMessage == 76

HEADER_SIZE == 2 * SizeOfProcessIdentifier + MessageType_SIZE

\* a payload sized so that header and payload together take 64 bytes
PAYLOAD_SIZE_Total64 == 64 - HEADER_SIZE

PAYLOAD_SIZE == 64

Message_new(source, destination, message_type, payload) ==
    [source |-> source, destination |-> destination,
     payload |-> payload, message_type |-> message_type]

\* a default message tagged with the first variant
Message_default_Interrupt ==
    [source |-> KERNEL, destination |-> KERNEL,
     payload |-> Fill(0, PAYLOAD_SIZE), message_type |-> "Interrupt"]

Message_default ==
    [source |-> KERNEL, destination |-> KERNEL,
     payload |-> Fill(0, PAYLOAD_SIZE), message_type |-> "Ipc"]

\* offsets of the fields, as to_bytes and try_from_bytes advance `offset`
SourceOffset == 0
DestinationOffset == SourceOffset + SizeOfProcessIdentifier
TypeOffset == DestinationOffset + SizeOfProcessIdentifier
PayloadOffset == TypeOffset + MessageType_SIZE

\* a to_bytes that writes the tag before the two identifiers
Message_to_bytes_TagFirst(m) ==
    LET b0 == Fill(0, HEADER_SIZE + PAYLOAD_SIZE)
        b1 == CopyFromSlice(b0, 0, MessageType_to_bytes(m.message_type))
        b2 == CopyFromSlice(b1, MessageType_SIZE, ProcessIdentifier_to_ne_bytes(m.source))
        b3 == CopyFromSlice(b2, MessageType_SIZE + SizeOfProcessIdentifier,
                            ProcessIdentifier_to_ne_bytes(m.destination))
        b4 == CopyFromSlice(b3, PayloadOffset, m.payload)
    IN  [panic |-> FALSE, bytes |-> b4]

\* a to_bytes that advances past the destination without writing it
Message_to_bytes_SkipDestination(m) ==
    LET b0 == Fill(0, HEADER_SIZE + PAYLOAD_SIZE)
        b1 == CopyFromSlice(b0, SourceOffset, ProcessIdentifier_to_ne_bytes(m.source))
        b3 == CopyFromSlice(b1, TypeOffset, MessageType_to_bytes(m.message_type))
        b4 == CopyFromSlice(b3, PayloadOffset, m.payload)
    IN  [panic |-> FALSE, bytes |-> b4]

\* Message::to_bytes: the buffer, or panic when a slice does not exist
Message_to_bytes(m) ==
    LET b0 == Fill(0, HEADER_SIZE + PAYLOAD_SIZE)
        src == ProcessIdentifier_to_ne_bytes(m.source)
        dst == ProcessIdentifier_to_ne_bytes(m.destination)
        tag == MessageType_to_bytes(m.message_type)
    IN  IF ~ ( /\ InRange(b0, SourceOffset, SizeOfProcessIdentifier)
               /\ InRange(b0, DestinationOffset, SizeOfProcessIdentifier)
               /\ InRange(b0, TypeOffset, MessageType_SIZE)
               /\ InRange(b0, PayloadOffset, PAYLOAD_SIZE)
               /\ Len(m.payload) = PAYLOAD_SIZE )
        THEN [panic |-> TRUE, bytes |-> <<>>]
        ELSE LET b1 == CopyFromSlice(b0, SourceOffset, src)
                 b2 == CopyFromSlice(b1, DestinationOffset, dst)
                 b3 == CopyFromSlice(b2, TypeOffset, tag)
                 b4 == CopyFromSlice(b3, PayloadOffset, m.payload)
             IN  [panic |-> FALSE, bytes |-> b4]

\* Message::try_from_bytes
Message_try_from_bytes(b) ==
    IF ~ ( /\ InRange(b, SourceOffset, SizeOfProcessIdentifier)
           /\ InRange(b, DestinationOffset, SizeOfProcessIdentifier)
           /\ InRange(b, TypeOffset, MessageType_SIZE)
           /\ InRange(b, PayloadOffset, PAYLOAD_SIZE) )
    THEN Panic
    ELSE LET source == ProcessIdentifier_from_ne_bytes(
                           Slice(b, SourceOffset, SizeOfProcessIdentifier))
             destination == ProcessIdentifier_from_ne_bytes(
                           Slice(b, DestinationOffset, SizeOfProcessIdentifier))
             mt == MessageType_try_from_bytes(Slice(b, TypeOffset, MessageType_SIZE))
             payload == CopyFromSlice(Fill(0, PAYLOAD_SIZE), 0,
                                      Slice(b, PayloadOffset, PAYLOAD_SIZE))
         IN  IF mt.kind # "Ok"
             THEN mt
             ELSE Ok([source |-> source, destination |-> destination,
                      message_type |-> mt.value[1], payload |-> payload])

----------------------------------------------------------------------------
(* Inputs *)

Ramp == [i \in 1..PAYLOAD_SIZE |-> i]
Payloads == {Fill(0, PAYLOAD_SIZE), Fill(171, PAYLOAD_SIZE), Ramp}

\* four arbitrary bytes
TagInputs == TagWords

\* buffers of the wire size with any tag field, as a peer or a faulty sender fills them
Buffers ==
    {s \o d \o t \o p :
        s \in {U32(7), << 1, 2, 3, 4 >>}, d \in {U32(0), U32Max}, t \in TagInputs,
        p \in {Fill(171, PAYLOAD_SIZE), Ramp}}

\* the offsets overwritten: every header byte, the first and the last payload byte
MutationOffsets == (0..HEADER_SIZE) \cup {HEADER_SIZE + PAYLOAD_SIZE - 1}

----------------------------------------------------------------------------
(* The callers *)

Init ==
    /\ endian \in {"little", "big"}
    /\ pc = "idle"
    /\ origin = "none"
    /\ msg = <<>>
    /\ bytes = <<>>
    /\ mutated = <<>>
    /\ result = NoResult
    /\ reenc = <<>>
    /\ typ = <<>>
    /\ tagBytes = <<>>
    /\ tagResult = NoResult

\* Message::new
New ==
    /\ pc = "idle"
    /\ \E source \in PidValues, destination \in PidValues,
          message_type \in MessageType, payload \in Payloads :
            msg' = << Message_new(source, destination, message_type, payload) >>
    /\ pc' = "built"
    /\ origin' = "new"
    /\ UNCHANGED <<endian, bytes, mutated, result, reenc, typ, tagBytes, tagResult>>

\* Message::default
Default ==
    /\ pc = "idle"
    /\ msg' = << Message_default >>
    /\ pc' = "built"
    /\ origin' = "default"
    /\ UNCHANGED <<endian, bytes, mutated, result, reenc, typ, tagBytes, tagResult>>

\* Message::to_bytes on the message built
ToBytes ==
    /\ pc = "built"
    /\ LET r == Message_to_bytes(msg[1])
       IN  IF r.panic
           THEN pc' = "panicked" /\ bytes' = bytes
           ELSE pc' = "serialized" /\ bytes' = r.bytes
    /\ UNCHANGED <<endian, origin, msg, mutated, result, reenc, typ, tagBytes, tagResult>>

\* the holder of the buffer overwrites one byte of it
Mutate ==
    /\ pc = "serialized"
    /\ mutated = <<>>
    /\ \E offset \in MutationOffsets, v \in MutationBytes :
          /\ bytes[offset + 1] # v
          /\ bytes' = [bytes EXCEPT ![offset + 1] = v]
          /\ mutated' = <<offset>>
    /\ UNCHANGED <<endian, origin, pc, msg, result, reenc, typ, tagBytes, tagResult>>

\* a buffer arrives from the transport
Receive ==
    /\ pc = "idle"
    /\ \E b \in Buffers : bytes' = b
    /\ pc' = "received"
    /\ origin' = "received"
    /\ UNCHANGED <<endian, msg, mutated, result, reenc, typ, tagBytes, tagResult>>

\* Message::try_from_bytes on the buffer
TryFromBytes ==
    /\ pc \in {"serialized", "received"}
    /\ result' = Message_try_from_bytes(bytes)
    /\ pc' = IF result'.kind = "Panic" THEN "panicked" ELSE "decoded"
    /\ UNCHANGED <<endian, origin, msg, bytes, mutated, reenc, typ, tagBytes, tagResult>>

\* Message::to_bytes on the message decoded
ReEncode ==
    /\ pc = "decoded"
    /\ result.kind = "Ok"
    /\ LET r == Message_to_bytes(result.value[1])
       IN  IF r.panic
           THEN pc' = "panicked" /\ reenc' = reenc
           ELSE pc' = "reencoded" /\ reenc' = r.bytes
    /\ UNCHANGED <<endian, origin, msg, bytes, mutated, result, typ, tagBytes, tagResult>>

\* typ.rs MessageType::to_bytes
TypToBytes ==
    /\ pc = "idle"
    /\ \E t \in Typ_MessageType :
          /\ typ' = <<t>>
          /\ tagBytes' = Typ_MessageType_to_bytes(t)
    /\ pc' = "tag_encoded"
    /\ UNCHANGED <<endian, origin, msg, bytes, mutated, result, reenc, tagResult>>

\* four bytes arrive as the input of a tag decoder
TagInput ==
    /\ pc = "idle"
    /\ \E b \in TagInputs : tagBytes' = b
    /\ pc' = "tag_input"
    /\ UNCHANGED <<endian, origin, msg, bytes, mutated, result, reenc, typ, tagResult>>

\* typ.rs MessageType::try_from_bytes
TypTryFromBytes ==
    /\ pc \in {"tag_encoded", "tag_input"}
    /\ tagResult' = Typ_MessageType_try_from_bytes(tagBytes)
    /\ pc' = "typ_decoded"
    /\ UNCHANGED <<endian, origin, msg, bytes, mutated, result, reenc, typ, tagBytes>>

\* message.rs MessageType::try_from_bytes
MessageTypeTryFromBytes ==
    /\ pc \in {"tag_encoded", "tag_input"}
    /\ tagResult' = MessageType_try_from_bytes(tagBytes)
    /\ pc' = "msg_decoded"
    /\ UNCHANGED <<endian, origin, msg, bytes, mutated, result, reenc, typ, tagBytes>>

Next ==
    \/ New
    \/ Default
    \/ ToBytes
    \/ Mutate
    \/ Receive
    \/ TryFromBytes
    \/ ReEncode
    \/ TypToBytes
    \/ TagInput
    \/ TypTryFromBytes
    \/ MessageTypeTryFromBytes

Spec == Init /\ [][Next]_vars

----------------------------------------------------------------------------
(* The claims *)

\* the codes the tag enumeration defines, and the variant each one denotes
DefinedCodes == {U32(0), U32(1), U32(2), U32(3), U32(4)}
VariantOf(w) ==
    CASE w = U32(0) -> "Interrupt"
      [] w = U32(1) -> "Exception"
      [] w = U32(2) -> "Ipc"
      [] w = U32(3) -> "SchedulingEvent"
      [] w = U32(4) -> "Ikc"

InvalidMessageType == Err("InvalidMessage", "invalid message type")

\* a buffer produced by to_bytes and not touched since
Pristine == origin \in {"new", "default"} /\ mutated = <<>>

\* C1: every message, whatever its source, destination and payload and whichever
\* of the five defined tags it carries, survives to_bytes followed by
\* try_from_bytes: the decoding succeeds and gives back the same four fields.
\* Stated for each tag the enumeration of typ.rs encodes (it can be given to
\* Message::new, and the buffer that carries its code decodes) and for each
\* message that was built, serialized and decoded.
C1_RoundTripEveryTag ==
    /\ pc = "tag_encoded" =>
          /\ typ[1] \in MessageType
          /\ \A p \in Payloads :
                Message_try_from_bytes(
                    ProcessIdentifier_to_ne_bytes(KERNEL)
                    \o ProcessIdentifier_to_ne_bytes(U32(7)) \o tagBytes \o p).kind = "Ok"
    /\ pc = "decoded" /\ Pristine => result = Ok(msg[1])

\* C2: decoding the encoding of any of the five tags of typ.rs succeeds and
\* returns that tag.
C2_TagRoundTrip ==
    pc = "typ_decoded" /\ typ # <<>> => tagResult = Ok(typ[1])

C2_Witness ==
    pc = "typ_decoded" /\ typ = <<"Ikc">> /\ tagResult.kind = "Ok"

\* C3: MessageType::try_from_bytes (of typ.rs and of message.rs alike) succeeds
\* exactly on the native-endian codes 0..4, returning the variant of the code,
\* and otherwise returns InvalidMessage, "invalid message type".
C3_DecodeIffDefinedCode ==
    pc \in {"typ_decoded", "msg_decoded"} =>
        LET w == from_ne_bytes(tagBytes)
        IN  IF w \in DefinedCodes
            THEN tagResult = Ok(VariantOf(w))
            ELSE tagResult = InvalidMessageType

\* C4 as stated: to_bytes puts the tag at offset 0, the source at 4, the
\* destination at 4 + W and the payload from 4 + 2W to the end (W = 4).
C4_TagFirstLayout ==
    pc = "serialized" /\ Pristine =>
        /\ SubSeq(bytes, 1, 4) = MessageType_to_bytes(msg[1].message_type)
        /\ SubSeq(bytes, 5, 8) = to_ne_bytes(msg[1].source)
        /\ SubSeq(bytes, 9, 12) = to_ne_bytes(msg[1].destination)
        /\ SubSeq(bytes, 13, Len(bytes)) = msg[1].payload

\* C4 as amended: to_bytes puts the source at offset 0, the destination at W,
\* the tag code at 2W and the payload verbatim from 2W + 4 to the end, with no
\* padding (W = 4); try_from_bytes reads each field from the same offsets.
C4_IdentifiersFirstLayout ==
    /\ pc = "serialized" /\ Pristine =>
          /\ Len(bytes) = 4 + 4 + 4 + Len(msg[1].payload)
          /\ SubSeq(bytes, 1, 4) = to_ne_bytes(msg[1].source)
          /\ SubSeq(bytes, 5, 8) = to_ne_bytes(msg[1].destination)
          /\ from_ne_bytes(SubSeq(bytes, 9, 12)) \in DefinedCodes
          /\ VariantOf(from_ne_bytes(SubSeq(bytes, 9, 12))) = msg[1].message_type
          /\ SubSeq(bytes, 13, Len(bytes)) = msg[1].payload
    /\ pc = "decoded" /\ result.kind = "Ok" =>
          /\ result.value[1].source = from_ne_bytes(SubSeq(bytes, 1, 4))
          /\ result.value[1].destination = from_ne_bytes(SubSeq(bytes, 5, 8))
          /\ result.value[1].message_type = VariantOf(from_ne_bytes(SubSeq(bytes, 9, 12)))
          /\ result.value[1].payload = SubSeq(bytes, 13, Len(bytes))

C4_Witness ==
    /\ pc = "decoded" /\ Pristine /\ result.kind = "Ok"
    /\ msg[1].source = << 1, 2, 3, 4 >>
    /\ msg[1].destination = U32(7)
    /\ msg[1].message_type = "SchedulingEvent"
    /\ msg[1].payload = Ramp

\* C5 as stated: the buffer of to_bytes and try_from_bytes has HEADER_SIZE +
\* PAYLOAD_SIZE bytes, HEADER_SIZE is 2W + 4, and the sum is 64 and is the size
\* of the Message record.
C5_WireSize64 ==
    pc \in {"serialized", "reencoded"} =>
        /\ Len(bytes) = HEADER_SIZE + PAYLOAD_SIZE
        /\ HEADER_SIZE = 2 * SizeOfProcessIdentifier + 4
        /\ Len(bytes) = 64
        /\ Len(bytes) = SizeOfMessage

\* C5 as amended: the same, with 76 bytes in all: a header of 2W + 4 = 12 bytes
\* and a payload of 64, for every message type.
C5_WireSize76 ==
    /\ HEADER_SIZE = 2 * SizeOfProcessIdentifier + 4
    /\ HEADER_SIZE + PAYLOAD_SIZE = 76
    /\ HEADER_SIZE + PAYLOAD_SIZE = SizeOfMessage
    /\ pc = "serialized" => Len(bytes) = 76
    /\ pc = "reencoded" => Len(reenc) = 76 /\ Len(bytes) = 76

C5_Witness ==
    /\ pc = "reencoded" /\ origin = "received"
    /\ result.value[1].message_type = "Interrupt"

\* the scenario of C6: Message::new(KERNEL, process 7, Ipc, [0xAB; PAYLOAD_SIZE]),
\* serialized, one byte overwritten, decoded
C6_Scenario(offset) ==
    /\ pc = "decoded" /\ origin = "new" /\ mutated = <<offset>>
    /\ msg[1] = Message_new(KERNEL, U32(7), "Ipc", Fill(171, PAYLOAD_SIZE))

\* C6 as stated: with byte 0 of the buffer overwritten by an invalid tag code,
\* try_from_bytes returns the invalid-message-type error, not Ok.
C6_Byte0Rejected ==
    C6_Scenario(0) => result = InvalidMessageType

\* C6 as amended: with byte 2W = 8 of the buffer, the first byte of the tag
\* field, overwritten so that the tag field holds none of the defined codes,
\* try_from_bytes returns the invalid-message-type error: no panic, no message.
C6_TagByteRejected ==
    C6_Scenario(8) /\ from_ne_bytes(SubSeq(bytes, 9, 12)) \notin DefinedCodes =>
        result = InvalidMessageType

C6_Witness ==
    /\ C6_Scenario(8)
    /\ bytes[9] = 255
    /\ result.kind = "Err"

\* C7: Message::default() has source and destination KERNEL, a payload of
\* PAYLOAD_SIZE zero bytes and the tag Ipc.
C7_Default ==
    origin = "default" =>
        /\ msg[1].source = KERNEL
        /\ msg[1].destination = KERNEL
        /\ Len(msg[1].payload) = PAYLOAD_SIZE
        /\ \A i \in 1..Len(msg[1].payload) : msg[1].payload[i] = 0
        /\ msg[1].message_type = "Ipc"

C7_Witness ==
    origin = "default" /\ pc = "built"

\* the offsets at which two buffers differ
DiffOffsets(x, y) == {i \in 0..(Len(x) - 1) : x[i + 1] # y[i + 1]}

\* C8: for distinct identifiers a, b and any payload p, the Ikc messages
\* new(a, b, Ikc, p) and new(b, a, Ikc, p) serialize to different buffers that
\* differ only inside the two identifier fields.  Stated for the tag Ikc once
\* the enumeration has produced it, and for every message that was serialized.
C8_SwappedEndpoints ==
    /\ pc = "tag_encoded" /\ typ = <<"Ikc">> =>
          \A a \in PidValues, b \in PidValues :
              a # b =>
                  /\ "Ikc" \in MessageType
                  /\ LET x == Message_to_bytes(Message_new(a, b, "Ikc", Ramp)).bytes
                         y == Message_to_bytes(Message_new(b, a, "Ikc", Ramp)).bytes
                     IN  x # y /\ DiffOffsets(x, y) \subseteq 0..(2 * SizeOfProcessIdentifier - 1)
    /\ pc = "serialized" /\ Pristine /\ msg[1].source # msg[1].destination =>
          LET m == msg[1]
              y == Message_to_bytes(
                       Message_new(m.destination, m.source, m.message_type, m.payload)).bytes
          IN  bytes # y /\ DiffOffsets(bytes, y) \subseteq 0..(2 * SizeOfProcessIdentifier - 1)

\* C9: try_from_bytes never panics; it returns Ok exactly when the tag field
\* holds one of the five defined codes 0..4 and InvalidMessage otherwise,
\* whatever the other bytes are.
C9_OkIffDefinedCode ==
    /\ pc # "panicked"
    /\ pc = "decoded" =>
          IF from_ne_bytes(SubSeq(bytes, 9, 12)) \in DefinedCodes
          THEN result.kind = "Ok"
          ELSE result.kind = "Err" /\ result.error[1].code = "InvalidMessage"

\* C10: whenever try_from_bytes(b) is Ok(m), m.to_bytes() is b, byte for byte.
C10_ReverseRoundTrip ==
    /\ pc = "reencoded" => reenc = bytes
    /\ pc = "panicked" => result.kind # "Ok"

C10_Witness ==
    /\ pc = "reencoded" /\ origin = "received"
    /\ reenc = << 1, 2, 3, 4 >> \o U32Max \o to_ne_bytes(U32(3)) \o Ramp

============================================================================
